---- MODULE Spec2Model ----
(***************************************************************************)
(* Client state machine of the Screen Recording Documentation Generator.   *)
(* The repository holds two revisions of the client script:                *)
(*   variant "A"  src/app.js               (videoBlob / isUploadedVideo)   *)
(*   variant "B"  src/unnamed/part_000     (file input / validate / README)*)
(* Both are modelled; `variant` is fixed by Init and selects the handlers. *)
(* The browser objects the handlers drive (MediaRecorder, fetch, the DOM   *)
(* elements) are modelled by the state they expose to the script.          *)
(***************************************************************************)
EXTENDS Integers, Sequences, FiniteSets, TLC

VARIABLES
    variant,          \* "A" or "B": which revision of the script is loaded
    recorders,        \* every MediaRecorder constructed so far (by creation order)
    mediaRecorder,    \* the global `mediaRecorder`: index into recorders, 0 = undefined
    pendingCapture,   \* startRecording invocations suspended at await getDisplayMedia
    recordedChunks,   \* the global `recordedChunks`
    videoBlob,        \* A: the global `videoBlob` (NoVideo = null)
    isUploadedVideo,  \* A: the global `isUploadedVideo`
    inputFiles,       \* B: document.getElementById('videoFile').files[0] (NoVideo = none)
    videoPreview,     \* payload shown in the preview element(s)
    startDisabled,    \* #startRecording.disabled
    stopDisabled,     \* #stopRecording.disabled
    processDisabled,  \* process button .disabled
    generateDisabled, \* generate button .disabled
    fpsValue,         \* #framesPerSecond.value (a string, as a sequence of characters)
    fpsValidity,      \* B: custom validity message set on #framesPerSecond ("" = valid)
    gridContainer,    \* children of #gridContainer, in document order
    processInFlight,  \* POST /process_video requests not yet settled
    nextReq,          \* number of POST /process_video requests issued so far
    docInFlight,      \* POST /generate_documentation requests not yet settled
    nextDoc,          \* number of POST /generate_documentation requests issued so far
    docOutput,        \* B: #documentationOutput; A: #results and #finalSummary
    downloadVisible,  \* B: #downloadButton is displayed
    downloadDoc,      \* B: the Markdown bound to #downloadButton.onclick (0 = no handler)
    lastDownload,     \* B: the file the last download click produced
    alertMsg,         \* alert() raised by the last step ("none" if it raised none)
    lastAct,          \* the handler or callback run by the last step
    lastResp,         \* the response the last step handled, and its request's id
    rendered          \* ids of the /process_video requests whose completion rendered its entries

vars == <<variant, recorders, mediaRecorder, pendingCapture, recordedChunks,
          videoBlob, isUploadedVideo, inputFiles, videoPreview,
          startDisabled, stopDisabled, processDisabled, generateDisabled,
          fpsValue, fpsValidity, gridContainer, processInFlight, nextReq,
          docInFlight, nextDoc, docOutput, downloadVisible, downloadDoc,
          lastDownload, alertMsg, lastAct, lastResp, rendered>>

recVars  == <<recorders, mediaRecorder, pendingCapture, recordedChunks>>
vidVars  == <<videoBlob, isUploadedVideo, inputFiles, videoPreview>>
ctlVars  == <<startDisabled, stopDisabled>>
btnVars  == <<processDisabled, generateDisabled>>
fpsVars  == <<fpsValue, fpsValidity>>
subVars  == <<gridContainer, processInFlight, nextReq, rendered>>
docVars  == <<docInFlight, nextDoc, docOutput, downloadVisible, downloadDoc, lastDownload>>

----------------------------------------------------------------------------
(* Bounds of the exploration *)

MaxRecorders == 2      \* startRecording invocations (and so MediaRecorders) in one run
MaxSlices    == 1      \* periodic (timeslice) dataavailable events in one run
MaxSubmits   == 2      \* requests of each kind issued in one run
MaxGrids     == 2      \* entries in one /process_video response
MaxDocs      == 2      \* POST /generate_documentation requests in flight
MaxLen       == 4      \* characters typed into #framesPerSecond

ChunkSizes == {0, 1}   \* event.data.size of a dataavailable event (0: an empty chunk)
Files      == {"clip.mp4"}   \* files the user can pick in the file dialog

NoVideo == [src |-> "none"]
NoResp  == [kind |-> "none"]
NoOutput   == [kind |-> "empty", doc |-> 0]
NoDownload == [name |-> "", content |-> 0]

Variants == {"A", "B"}

----------------------------------------------------------------------------
----------------------------------------------------------------------------
(* Initial state: the page after the script has loaded.                     *)
(* index.html shows #startRecording enabled and #stopRecording disabled.    *)
(* B's process and generate buttons are enabled there.  The markup that    *)
(* variant A binds to (#processVideo, #generateDocumentation) is not in the *)
(* sources; A only ever enables the two buttons, so they start disabled.    *)

InitPage(fps) ==
    /\ variant \in Variants
    /\ recorders = <<>>
    /\ mediaRecorder = 0
    /\ pendingCapture = 0
    /\ recordedChunks = <<>>
    /\ videoBlob = NoVideo
    /\ isUploadedVideo = FALSE
    /\ inputFiles = NoVideo
    /\ videoPreview = [preview |-> NoVideo, uploaded |-> NoVideo]
    /\ startDisabled = FALSE
    /\ stopDisabled = TRUE
    /\ processDisabled = (variant = "A")
    /\ generateDisabled = (variant = "A")
    /\ fpsValue = fps
    /\ fpsValidity = ""
    /\ gridContainer = <<>>
    /\ processInFlight = {}
    /\ nextReq = 0
    /\ docInFlight = {}
    /\ nextDoc = 0
    /\ docOutput = NoOutput
    /\ downloadVisible = FALSE
    /\ downloadDoc = 0
    /\ lastDownload = NoDownload
    /\ alertMsg = "none"
    /\ lastAct = "load"
    /\ lastResp = NoResp
    /\ rendered = {}

\* index.html: <input type="number" id="framesPerSecond" ... value="4">.
Init == InitPage(<<"4">>)

----------------------------------------------------------------------------
(* Recorder / uploader *)

Recording(r) == recorders[r].state = "recording"

\* A step that is not the settlement of a request.
Step(act, msg) ==
    /\ lastAct' = act
    /\ alertMsg' = msg
    /\ lastResp' = NoResp

\* startRecording up to `await navigator.mediaDevices.getDisplayMedia(...)`.
startRecording ==
    /\ ~startDisabled
    /\ pendingCapture + Len(recorders) < MaxRecorders
    /\ pendingCapture' = pendingCapture + 1
    /\ Step("startRecording", "none")
    /\ UNCHANGED <<variant, recorders, mediaRecorder, recordedChunks>>
    /\ UNCHANGED <<vidVars, ctlVars, btnVars, fpsVars>>
    /\ UNCHANGED <<subVars, docVars>>

\* new MediaRecorder(stream[, options]) followed by mediaRecorder.start([1000]):
\* the recorder is "recording" at once and its `start` event is queued.
NewRecorder == [state |-> "recording", queue |-> <<"start">>, slices |-> 0, sent |-> <<>>]

\* startRecording resumed with the stream: the recorder is created, started and
\* stored in the global; the controls flip.
startRecordingGranted ==
    /\ pendingCapture > 0
    /\ pendingCapture' = pendingCapture - 1
    /\ recorders' = Append(recorders, NewRecorder)
    /\ mediaRecorder' = Len(recorders) + 1
    /\ startDisabled' = TRUE
    /\ stopDisabled' = FALSE
    /\ Step("startRecordingGranted", "none")
    /\ UNCHANGED <<variant, recordedChunks>>
    /\ UNCHANGED <<vidVars, btnVars, fpsVars>>
    /\ UNCHANGED <<subVars, docVars>>

AlertStart == "Error starting recording."

\* The two places startRecording can throw before a recorder is started.
StartFailures == {"getDisplayMedia rejected", "MediaRecorder threw"}

\* A catch block that leaves the start control disabled.
catchControlsStuck(ctl) == <<TRUE, ctl[2]>>

\* What the catch block of startRecording does to the two recording controls.
catchControls(ctl) == ctl

\* startRecording resumed with a rejection of getDisplayMedia, or with the
\* MediaRecorder constructor throwing (B asks for an H264 mime type): the catch
\* block raises the alert; the global is not assigned, nothing is started.
startRecordingFailed(cause) ==
    /\ pendingCapture > 0
    /\ pendingCapture' = pendingCapture - 1
    /\ startDisabled' = catchControls(<<startDisabled, stopDisabled>>)[1]
    /\ stopDisabled' = catchControls(<<startDisabled, stopDisabled>>)[2]
    /\ Step(cause, AlertStart)
    /\ UNCHANGED <<variant, recorders, mediaRecorder, recordedChunks>>
    /\ UNCHANGED <<vidVars, btnVars, fpsVars>>
    /\ UNCHANGED <<subVars, docVars>>

\* MediaRecorder.stop(), and equally the recorder stopping because its stream
\* ended: the state is "inactive" at once, and one task is queued that fires the
\* final dataavailable and then the stop event.
Stopped(rec) == [rec EXCEPT !.state = "inactive", !.queue = @ \o <<"stop">>]

\* A guard that only asks for a recorder, whatever its state.
CanStopAnyState == mediaRecorder # 0

\* The guard of stopRecording.
CanStop == mediaRecorder # 0 /\ recorders[mediaRecorder].state # "inactive"

stopRecording ==
    /\ ~stopDisabled
    /\ IF CanStop
         THEN /\ recorders' = [recorders EXCEPT ![mediaRecorder] = Stopped(@)]
              /\ startDisabled' = FALSE
              /\ stopDisabled' = TRUE
         ELSE UNCHANGED <<recorders, startDisabled, stopDisabled>>
    /\ Step("stopRecording", "none")
    /\ UNCHANGED <<variant, mediaRecorder, pendingCapture, recordedChunks>>
    /\ UNCHANGED <<vidVars, btnVars, fpsVars>>
    /\ UNCHANGED <<subVars, docVars>>

\* The user (or the platform) ends the screen share: the recorder stops on its
\* own, without stopRecording and so without any change to the controls.
streamEnded(r) ==
    /\ Recording(r)
    /\ recorders' = [recorders EXCEPT ![r] = Stopped(@)]
    /\ Step("streamEnded", "none")
    /\ UNCHANGED <<variant, mediaRecorder, pendingCapture, recordedChunks>>
    /\ UNCHANGED <<vidVars, ctlVars, btnVars, fpsVars>>
    /\ UNCHANGED <<subVars, docVars>>

\* mediaRecorder.ondataavailable: a non-empty chunk is pushed, an empty one dropped.
Chunk(r, size) == [rec |-> r, n |-> Len(recorders[r].sent) + 1, size |-> size]

ondataavailable(chunks, r, size) ==
    IF size > 0 THEN Append(chunks, Chunk(r, size)) ELSE chunks

Delivered(rec, r, size) ==
    IF size > 0 THEN [rec EXCEPT !.sent = Append(@, Chunk(r, size))] ELSE rec

\* Periodic dataavailable events delivered so far, over all recorders.
RECURSIVE SlicesIn(_)
SlicesIn(recs) == IF recs = <<>> THEN 0 ELSE Head(recs).slices + SlicesIn(Tail(recs))

\* A: start(1000) makes the recorder deliver a chunk every second while it records.
timeslice(r, size) ==
    /\ variant = "A"
    /\ Recording(r)
    /\ recorders[r].queue = <<>>
    /\ SlicesIn(recorders) < MaxSlices
    /\ recordedChunks' = ondataavailable(recordedChunks, r, size)
    /\ recorders' = [recorders EXCEPT ![r] = [Delivered(@, r, size) EXCEPT !.slices = @ + 1]]
    /\ Step("ondataavailable", "none")
    /\ UNCHANGED <<variant, mediaRecorder, pendingCapture>>
    /\ UNCHANGED <<vidVars, ctlVars, btnVars, fpsVars>>
    /\ UNCHANGED <<subVars, docVars>>

\* The payload of `new Blob(recordedChunks, ...)`.
RecordedBlob(chunks) == [src |-> "recorded", chunks |-> chunks]

UploadedFile(f) == [src |-> "upload", name |-> f]

\* A: mediaRecorder.onstart.
onstartA ==
    /\ recordedChunks' = <<>>
    /\ isUploadedVideo' = FALSE
    /\ UNCHANGED <<videoBlob, inputFiles, videoPreview, processDisabled>>

\* A: what mediaRecorder.onstop leaves in the chunk buffer.
onstopChunksA(chunks) == chunks

\* A: mediaRecorder.onstop (with displayVideo(videoBlob, 'videoPreview')), run
\* on the buffer as the final dataavailable left it.
onstopA(chunks) ==
    /\ videoBlob' = RecordedBlob(chunks)
    /\ recordedChunks' = onstopChunksA(chunks)
    /\ videoPreview' = [videoPreview EXCEPT !.preview = RecordedBlob(chunks)]
    /\ processDisabled' = FALSE
    /\ UNCHANGED <<isUploadedVideo, inputFiles>>

\* B: what handleRecordingStop leaves in the chunk buffer.
handleRecordingStopChunks(chunks) == <<>>

\* B: handleRecordingStop (with displayRecordedVideo(blob), which also puts the
\* recording into the file input), run on the buffer as the final
\* dataavailable left it.
handleRecordingStop(chunks) ==
    /\ recordedChunks' = handleRecordingStopChunks(chunks)
    /\ videoPreview' = [preview  |-> RecordedBlob(chunks),
                        uploaded |-> RecordedBlob(chunks)]
    /\ inputFiles' = RecordedBlob(chunks)
    /\ UNCHANGED <<videoBlob, isUploadedVideo, processDisabled>>

\* The next queued task of recorder r runs: the start event, or the final
\* dataavailable (of the given size) followed by the stop event.
recorderEvent(r, size) ==
    /\ recorders[r].queue # <<>>
    /\ LET ev == Head(recorders[r].queue) IN
       /\ lastAct' = IF ev = "start" THEN "onstart" ELSE "onstop"
       /\ IF ev = "start"
            THEN /\ size = 0
                 /\ recorders' = [recorders EXCEPT ![r].queue = Tail(@)]
                 /\ IF variant = "A" THEN onstartA
                    ELSE UNCHANGED <<recordedChunks, vidVars, processDisabled>>
            ELSE /\ recorders' = [recorders EXCEPT
                                    ![r] = [Delivered(@, r, size) EXCEPT !.queue = Tail(@)]]
                 /\ IF variant = "A"
                      THEN onstopA(ondataavailable(recordedChunks, r, size))
                      ELSE handleRecordingStop(ondataavailable(recordedChunks, r, size))
    /\ alertMsg' = "none"
    /\ lastResp' = NoResp
    /\ UNCHANGED <<variant, mediaRecorder, pendingCapture>>
    /\ UNCHANGED <<ctlVars, generateDisabled, fpsVars>>
    /\ UNCHANGED <<subVars, docVars>>

\* A: handleVideoUpload with a chosen file (with displayVideo(file, 'uploadedVideo')).
handleVideoUpload(f) ==
    /\ variant = "A"
    /\ videoBlob' = UploadedFile(f)
    /\ isUploadedVideo' = TRUE
    /\ videoPreview' = [videoPreview EXCEPT !.uploaded = UploadedFile(f)]
    /\ processDisabled' = FALSE
    /\ Step("handleVideoUpload", "none")
    /\ UNCHANGED <<variant, recVars, inputFiles, ctlVars, generateDisabled, fpsVars>>
    /\ UNCHANGED <<subVars, docVars>>

\* B: the user picks a file in #videoFile (the browser sets .files), then
\* handleVideoFileChange (with previewVideo(file)).
handleVideoFileChange(f) ==
    /\ variant = "B"
    /\ inputFiles' = UploadedFile(f)
    /\ videoPreview' = [preview |-> UploadedFile(f), uploaded |-> UploadedFile(f)]
    /\ Step("handleVideoFileChange", "none")
    /\ UNCHANGED <<variant, recVars, videoBlob, isUploadedVideo, ctlVars, btnVars, fpsVars>>
    /\ UNCHANGED <<subVars, docVars>>

\* The file dialog is dismissed with no file: the change event carries an empty
\* list, `if (file)` fails in both handlers; B's processVideo reads the now
\* empty list from the input.
fileDialogEmptied ==
    /\ inputFiles' = IF variant = "B" THEN NoVideo ELSE inputFiles
    /\ Step(IF variant = "A" THEN "handleVideoUpload" ELSE "handleVideoFileChange", "none")
    /\ UNCHANGED <<variant, recVars, videoBlob, isUploadedVideo, videoPreview>>
    /\ UNCHANGED <<ctlVars, btnVars, fpsVars>>
    /\ UNCHANGED <<subVars, docVars>>

----------------------------------------------------------------------------
(* The frames-per-second control: <input type="number" min="1" max="30">.  *)
(* Strings are sequences of one-character strings.                          *)

Digits == <<"0", "1", "2", "3", "4", "5", "6", "7", "8", "9">>

IsDigit(c) == \E i \in 1..10 : Digits[i] = c

DigitVal(c) == (CHOOSE i \in 1..10 : Digits[i] = c) - 1

\* Index just after the run of digits of s that starts at index i.
RECURSIVE AfterDigits(_, _)
AfterDigits(s, i) ==
    IF i <= Len(s) /\ IsDigit(s[i]) THEN AfterDigits(s, i + 1) ELSE i

\* Value of the digits s[i..j-1] (0 for an empty run).
RECURSIVE DigitsVal(_, _, _)
DigitsVal(s, i, j) ==
    IF j <= i THEN 0 ELSE DigitsVal(s, i, j - 1) * 10 + DigitVal(s[j - 1])

RECURSIVE Pow10(_)
Pow10(k) == IF k <= 0 THEN 1 ELSE 10 * Pow10(k - 1)

\* The parts of s read as -?digits(.digits)?(e[+-]?digits)? ; `end` is the
\* index after the last character so read.
FloatParts(s) ==
    LET i0     == IF Len(s) > 0 /\ s[1] = "-" THEN 2 ELSE 1
        i1     == AfterDigits(s, i0)
        hasDot == i1 <= Len(s) /\ s[i1] = "."
        i2     == IF hasDot THEN AfterDigits(s, i1 + 1) ELSE i1
        hasExp == i2 <= Len(s) /\ s[i2] = "e"
        eSign  == hasExp /\ i2 + 1 <= Len(s) /\ s[i2 + 1] \in {"-", "+"}
        eNeg   == eSign /\ s[i2 + 1] = "-"
        i3     == IF hasExp THEN (IF eSign THEN i2 + 2 ELSE i2 + 1) ELSE i2
        i4     == IF hasExp THEN AfterDigits(s, i3) ELSE i2
    IN [neg |-> i0 = 2, intLen |-> i1 - i0, hasDot |-> hasDot,
        fracLen |-> IF hasDot THEN i2 - (i1 + 1) ELSE 0,
        hasExp |-> hasExp, expLen |-> i4 - i3,
        mant |-> DigitsVal(s, i0, i1) * Pow10(IF hasDot THEN i2 - (i1 + 1) ELSE 0)
                 + (IF hasDot THEN DigitsVal(s, i1 + 1, i2) ELSE 0),
        exp  |-> (IF eNeg THEN -1 ELSE 1) * (IF hasExp THEN DigitsVal(s, i3, i4) ELSE 0),
        end  |-> i4]

\* HTML "valid floating-point number", the only non-empty values a
\* type="number" input holds.
IsValidFloat(s) ==
    LET p == FloatParts(s) IN
    /\ p.intLen > 0 \/ p.hasDot
    /\ p.hasDot => p.fracLen > 0
    /\ p.hasExp => p.expLen > 0
    /\ p.end = Len(s) + 1

\* The value sanitization of <input type="number">: anything that is not a
\* valid floating-point number becomes the empty string.
sanitizeNumber(s) == IF IsValidFloat(s) THEN s ELSE <<>>

\* JavaScript parseInt(s) (radix 10) on a string without leading white space:
\* an optional sign and the longest run of digits; NaN when there is none.
parseInt(s) ==
    LET signed == Len(s) > 0 /\ s[1] \in {"-", "+"}
        i0     == IF signed THEN 2 ELSE 1
        i1     == AfterDigits(s, i0)
    IN [nan |-> i1 = i0,
        val |-> (IF signed /\ s[1] = "-" THEN -1 ELSE 1) * DigitsVal(s, i0, i1)]

\* The condition validateFramesPerSecond rejects a parsed value on:
\* isNaN(value) || value < 1 || value > 30.
fpsRejected(value) == value.nan \/ value.val < 1 \/ value.val > 30

\* B: validateFramesPerSecond: the custom validity it sets on the control.
validateFramesPerSecond(s) ==
    IF fpsRejected(parseInt(s)) THEN "Please enter a number between 1 and 30" ELSE ""

\* What the user types in the runs that exercise submission: the empty string,
\* the page's default and a value above the maximum.
FpsChoices == {<<>>, <<"4">>, <<"3", "1">>}

\* The user edits #framesPerSecond; in B the input event runs
\* validateFramesPerSecond, A registers no listener on the control.
typeFramesPerSecond(raw) ==
    /\ sanitizeNumber(raw) # fpsValue
    /\ fpsValue' = sanitizeNumber(raw)
    /\ fpsValidity' = IF variant = "B" THEN validateFramesPerSecond(sanitizeNumber(raw))
                      ELSE fpsValidity
    /\ Step("input", "none")
    /\ UNCHANGED <<variant, recVars, vidVars, ctlVars, btnVars, subVars, docVars>>

----------------------------------------------------------------------------
(* Video submission *)

\* A: `document.getElementById('framesPerSecond').value || 4`, as FormData
\* stores it (a string).
framesPerSecondA(value) == IF value = <<>> THEN <<"4">> ELSE value

\* A: the guard `if (!videoBlob)` of processVideo.
noVideoA(blob) == blob = NoVideo

\* A: the multipart request processVideo builds.
RequestA == [id    |-> nextReq + 1,
             video |-> videoBlob,
             fps   |-> framesPerSecondA(fpsValue),
             flag  |-> IF isUploadedVideo THEN "true" ELSE "false"]

\* A: processVideo up to `await fetch('/process_video', ...)`.
processVideoA ==
    /\ variant = "A"
    /\ ~processDisabled
    /\ nextReq < MaxSubmits
    /\ IF noVideoA(videoBlob)
         THEN /\ Step("processVideo", "Please record or upload a video before processing.")
              /\ UNCHANGED <<processInFlight, nextReq>>
         ELSE /\ processInFlight' = processInFlight \cup {RequestA}
              /\ nextReq' = nextReq + 1
              /\ Step("processVideo", "none")
    /\ UNCHANGED <<variant, recVars, vidVars, ctlVars, btnVars, fpsVars>>
    /\ UNCHANGED <<gridContainer, rendered, docVars>>

\* B: the `video` part: the input's file if there is one, else a blob of
\* whatever the chunk buffer holds.
videoPartB(file, chunks) == IF file # NoVideo THEN file ELSE RecordedBlob(chunks)

\* B: the multipart request processVideo builds (no is_uploaded_video part).
RequestB == [id    |-> nextReq + 1,
             video |-> videoPartB(inputFiles, recordedChunks),
             fps   |-> fpsValue,
             flag  |-> "absent"]

\* B: processVideo up to fetch('/process_video', ...).
processVideoB ==
    /\ variant = "B"
    /\ ~processDisabled
    /\ nextReq < MaxSubmits
    /\ processInFlight' = processInFlight \cup {RequestB}
    /\ nextReq' = nextReq + 1
    /\ Step("processVideo", "none")
    /\ UNCHANGED <<variant, recVars, vidVars, ctlVars, btnVars, fpsVars>>
    /\ UNCHANGED <<gridContainer, rendered, docVars>>

\* The grid entries a response to request id can carry: n entries, in order.
Grids(id, n) == [k \in 1..n |-> [req |-> id, n |-> k]]

ErrorFields == {"absent", "falsy", "truthy"}

\* How a /process_video request can settle.
\*   reject : fetch rejects (network failure)
\*   invalid: the body is not JSON
\*   array  : the body is a JSON array of grids            (`frames` holds it)
\*   object : the body is a JSON object with optional error, frames, video_info
\* `error` is the error field read as a condition: absent, present but falsy
\* (such as ""), or truthy.
ProcessResponses(id) ==
    {[kind |-> "reject", ok |-> FALSE, error |-> "absent", hasFrames |-> FALSE,
      frames |-> <<>>, info |-> FALSE]}
    \cup {[kind |-> "invalid", ok |-> ok, error |-> "absent", hasFrames |-> FALSE,
           frames |-> <<>>, info |-> FALSE] : ok \in BOOLEAN}
    \cup {[kind |-> "array", ok |-> ok, error |-> "absent", hasFrames |-> FALSE,
           frames |-> Grids(id, n), info |-> FALSE] : ok \in BOOLEAN, n \in 0..MaxGrids}
    \cup {[kind |-> "object", ok |-> ok, error |-> e, hasFrames |-> TRUE,
           frames |-> Grids(id, n), info |-> i] :
             ok \in BOOLEAN, e \in ErrorFields, n \in 0..MaxGrids, i \in BOOLEAN}
    \cup {[kind |-> "object", ok |-> ok, error |-> e, hasFrames |-> FALSE,
           frames |-> <<>>, info |-> i] :
             ok \in BOOLEAN, e \in ErrorFields, i \in BOOLEAN}

\* displayGrids (A) and displayProcessedFrames (B) on a list: the container is
\* emptied, then one element per entry is appended in order.
RECURSIVE appendEach(_, _)
appendEach(container, entries) ==
    IF entries = <<>> THEN container
    ELSE appendEach(Append(container, Head(entries)), Tail(entries))

\* displayGrids without `gridContainer.innerHTML = ''`.
displayGridsKeeping(container, grids) == appendEach(container, grids)

displayGrids(container, grids) == appendEach(<<>>, grids)

displayProcessedFrames(container, frames) == appendEach(<<>>, frames)

\* The outcome of a completion: the container, the alert raised, whether the
\* generate button is enabled by it, whether the response's entries were rendered.
Outcome(grid, msg, enable, shown) ==
    [grid |-> grid, alert |-> msg, enable |-> enable, rendered |-> shown]

AlertA == "Error processing video. Please check the console for details."

\* A: processVideo from the fetch on.  A body that is not an array reaches
\* displayGrids, which empties the container before forEach throws.
completeA(resp, grid) ==
    IF resp.kind = "reject" \/ ~resp.ok \/ resp.kind = "invalid" \/ resp.error = "truthy"
      THEN Outcome(grid, AlertA, FALSE, FALSE)
    ELSE IF resp.kind = "array"
      THEN Outcome(displayGrids(grid, resp.frames), "none", TRUE, TRUE)
    ELSE Outcome(<<>>, AlertA, FALSE, FALSE)

AlertB == "An error occurred while processing the video."

\* B: the promise chain of processVideo.  response.ok is never read; a body
\* without frames reaches displayProcessedFrames, which empties the container
\* before forEach throws; a body without video_info throws after rendering.
completeB(resp, grid) ==
    IF resp.kind = "reject" \/ resp.kind = "invalid"
      THEN Outcome(grid, AlertB, FALSE, FALSE)
    ELSE IF resp.kind = "array"
      THEN Outcome(<<>>, AlertB, FALSE, FALSE)
    ELSE IF resp.error = "truthy"
      THEN Outcome(grid, "data.error", FALSE, FALSE)
    ELSE IF ~resp.hasFrames
      THEN Outcome(<<>>, AlertB, FALSE, FALSE)
    ELSE Outcome(displayProcessedFrames(grid, resp.frames),
                 IF resp.info THEN "Video processed successfully." ELSE AlertB,
                 FALSE, TRUE)

\* A /process_video request settles and the rest of processVideo runs.
processVideoSettled(req, resp) ==
    /\ req \in processInFlight
    /\ processInFlight' = processInFlight \ {req}
    /\ LET out == IF variant = "A" THEN completeA(resp, gridContainer)
                  ELSE completeB(resp, gridContainer) IN
       /\ gridContainer' = out.grid
       /\ alertMsg' = out.alert
       /\ generateDisabled' = IF out.enable THEN FALSE ELSE generateDisabled
       /\ rendered' = IF out.rendered THEN rendered \cup {req.id} ELSE rendered
    /\ lastAct' = "processVideoSettled"
    /\ lastResp' = [kind |-> "settled", id |-> req.id, resp |-> resp]
    /\ UNCHANGED <<variant, recVars, vidVars, ctlVars, processDisabled, fpsVars>>
    /\ UNCHANGED <<nextReq, docVars>>

----------------------------------------------------------------------------
(* Documentation request *)

Output(kind, doc) == [kind |-> kind, doc |-> doc]

\* generateDocumentation up to the fetch.  Neither revision checks anything
\* first; B shows the placeholder and hides the download button.
generateDocumentation ==
    /\ ~generateDisabled
    /\ Cardinality(docInFlight) < MaxDocs
    /\ nextDoc < MaxSubmits
    /\ docInFlight' = docInFlight \cup {nextDoc + 1}
    /\ nextDoc' = nextDoc + 1
    /\ IF variant = "B"
         THEN /\ docOutput' = Output("placeholder", 0)
              /\ downloadVisible' = FALSE
         ELSE UNCHANGED <<docOutput, downloadVisible>>
    /\ Step("generateDocumentation", "none")
    /\ UNCHANGED <<variant, recVars, vidVars, ctlVars, btnVars, fpsVars, subVars>>
    /\ UNCHANGED <<downloadDoc, lastDownload>>

\* How a /generate_documentation request can settle: as for /process_video,
\* with `shape` the content of a JSON object body: a documentation string, a
\* grid_results list with final_summary, or neither.
DocResponses ==
    {[kind |-> "reject", ok |-> FALSE, error |-> "absent", shape |-> "neither"]}
    \cup {[kind |-> "invalid", ok |-> ok, error |-> "absent", shape |-> "neither"] :
             ok \in BOOLEAN}
    \cup {[kind |-> "object", ok |-> ok, error |-> e, shape |-> sh] :
             ok \in BOOLEAN, e \in ErrorFields,
             sh \in {"documentation", "grid_results", "neither"}}

AlertDocA == "Error generating documentation. Please check the console for details."

\* A: generateDocumentation from the fetch on: displayResults(results.grid_results)
\* and displayFinalSummary(results.final_summary) run for every parsed body of a
\* success status; results.error is not read.
completeDocA(id, resp, out) ==
    IF resp.kind = "reject" \/ ~resp.ok \/ resp.kind = "invalid"
      THEN [out |-> out, alert |-> AlertDocA]
    ELSE IF resp.shape = "grid_results"
      THEN [out |-> Output("results", id), alert |-> "none"]
    ELSE [out |-> Output("No results to display", 0), alert |-> "none"]

\* A promise chain without the final catch: a failure leaves the output region
\* as the click left it.
completeDocBUncaught(id, resp, out, visible, bound) ==
    IF resp.kind = "object" /\ resp.ok /\ resp.error # "truthy"
       /\ resp.shape = "documentation"
      THEN [out |-> Output("documentation", id), visible |-> TRUE, bound |-> id]
      ELSE [out |-> out, visible |-> visible, bound |-> bound]

\* B: the promise chain of generateDocumentation: [output, download button shown,
\* Markdown bound to the button].  marked.parse throws on a missing string.
completeDocB(id, resp, out, visible, bound) ==
    IF resp.kind = "object" /\ resp.ok /\ resp.error # "truthy"
       /\ resp.shape = "documentation"
      THEN [out |-> Output("documentation", id), visible |-> TRUE, bound |-> id]
      ELSE [out |-> Output("error", 0), visible |-> visible, bound |-> bound]

\* A /generate_documentation request settles.
generateDocumentationSettled(id, resp) ==
    /\ id \in docInFlight
    /\ docInFlight' = docInFlight \ {id}
    /\ IF variant = "A"
         THEN LET r == completeDocA(id, resp, docOutput) IN
              /\ docOutput' = r.out
              /\ alertMsg' = r.alert
              /\ UNCHANGED <<downloadVisible, downloadDoc>>
         ELSE LET r == completeDocB(id, resp, docOutput, downloadVisible, downloadDoc) IN
              /\ docOutput' = r.out
              /\ downloadVisible' = r.visible
              /\ downloadDoc' = r.bound
              /\ alertMsg' = "none"
    /\ lastAct' = "generateDocumentationSettled"
    /\ lastResp' = [kind |-> "documentation", id |-> id, resp |-> resp]
    /\ UNCHANGED <<variant, recVars, vidVars, ctlVars, btnVars, fpsVars, subVars>>
    /\ UNCHANGED <<nextDoc, lastDownload>>

\* B: a click on the visible download button runs downloadMarkdown(content)
\* with the Markdown bound to it: a file README.md, no request.
downloadMarkdown ==
    /\ variant = "B"
    /\ downloadVisible
    /\ downloadDoc # 0
    /\ lastDownload' = [name |-> "README.md", content |-> downloadDoc]
    /\ Step("downloadMarkdown", "none")
    /\ UNCHANGED <<variant, recVars, vidVars, ctlVars, btnVars, fpsVars, subVars>>
    /\ UNCHANGED <<docInFlight, nextDoc, docOutput, downloadVisible, downloadDoc>>

----------------------------------------------------------------------------
(* The specification *)

Recorders == 1..Len(recorders)

\* The user's and the platform's steps of the recorder/uploader.
NextRecorder ==
    \/ startRecording
    \/ startRecordingGranted
    \/ \E cause \in StartFailures : startRecordingFailed(cause)
    \/ stopRecording
    \/ \E r \in Recorders : streamEnded(r)
    \/ \E r \in Recorders, size \in ChunkSizes : timeslice(r, size)
    \/ \E r \in Recorders, size \in ChunkSizes : recorderEvent(r, size)

NextUpload ==
    \/ \E f \in Files : handleVideoUpload(f)
    \/ \E f \in Files : handleVideoFileChange(f)
    \/ fileDialogEmptied

NextSubmit ==
    \/ \E raw \in FpsChoices : typeFramesPerSecond(raw)
    \/ processVideoA
    \/ processVideoB
    \/ \E req \in processInFlight : \E resp \in ProcessResponses(req.id) :
          processVideoSettled(req, resp)

NextDoc ==
    \/ generateDocumentation
    \/ \E id \in docInFlight, resp \in DocResponses : generateDocumentationSettled(id, resp)
    \/ downloadMarkdown

Next == NextRecorder \/ NextUpload \/ NextSubmit \/ NextDoc

Spec == Init /\ [][Next]_vars

\* The subsystems meet only in the video handed to processVideo: the recorder's
\* handlers read no submission or documentation state, and the other way round.
\* The specifications below run them apart, so that each is explored in full.

\* The recorder alone.
SpecRecorder == Init /\ [][NextRecorder]_vars

\* The recorder and the file input.
SpecCapture == Init /\ [][NextRecorder \/ NextUpload]_vars

\* Submission over selected files, with the documentation trigger.
SpecSubmit == Init /\ [][NextUpload \/ NextSubmit \/ generateDocumentation]_vars

\* Submissions and their completions alone.
SpecGrid ==
    Init /\ [][NextUpload \/ processVideoA \/ processVideoB
                \/ \E req \in processInFlight : \E resp \in ProcessResponses(req.id) :
                      processVideoSettled(req, resp)]_vars

\* The documentation requestor alone.
SpecDoc == Init /\ [][NextDoc]_vars

\* The documentation requestor with every request settling in the end (the
\* server answers or the connection fails).
SpecDocFair ==
    SpecDoc /\ WF_vars(\E id \in docInFlight, resp \in DocResponses :
                          generateDocumentationSettled(id, resp))

\* Submissions over selected files and the documentation requestor: in A the
\* generate button is enabled by a rendered submission.
SpecPage ==
    Init /\ [][NextUpload \/ processVideoA \/ processVideoB
                \/ (\E req \in processInFlight : \E resp \in ProcessResponses(req.id) :
                      processVideoSettled(req, resp))
                \/ NextDoc]_vars

\* The recorder, the file input and the submit click: where the video and the
\* source flag of a request come from.
SpecSource ==
    Init /\ [][NextRecorder \/ NextUpload \/ processVideoA \/ processVideoB]_vars

\* validateFramesPerSecond over every value the control can hold.
FpsAlphabet == {"0", "1", "3", "5", "9", ".", "-", "+", "e", "x"}

FpsStrings == UNION {[1..n -> FpsAlphabet] : n \in 0..MaxLen}

\* The page with any text the user may have left in the control.
InitFps ==
    /\ variant = "B"
    /\ \E raw \in FpsStrings : InitPage(sanitizeNumber(raw))

\* The input event: validateFramesPerSecond runs on the value the control holds.
inputFramesPerSecond ==
    /\ variant = "B"
    /\ fpsValidity' = validateFramesPerSecond(fpsValue)
    /\ Step("validateFramesPerSecond", "none")
    /\ UNCHANGED <<variant, recVars, vidVars, ctlVars, btnVars, fpsValue, subVars, docVars>>

SpecFps == InitFps /\ [][inputFramesPerSecond]_vars

----------------------------------------------------------------------------
(* Properties *)

\* The value of a valid floating-point string lies in [1, 30].
FpsInRange(s) ==
    /\ IsValidFloat(s)
    /\ LET p == FloatParts(s)
           k == p.exp - p.fracLen
       IN /\ ~p.neg
          /\ p.mant > 0
          /\ IF k >= 0 THEN k <= 1 /\ p.mant * Pow10(k) <= 30
             ELSE /\ -k <= Len(s)
                  /\ Pow10(-k) <= p.mant
                  /\ p.mant <= 30 * Pow10(-k)

\* s is an integer written in digits, in [1, 30].
FpsIntegerInRange(s) ==
    /\ s # <<>>
    /\ AfterDigits(s, 1) = Len(s) + 1
    /\ DigitsVal(s, 1, Len(s) + 1) \in 1..30

\* No recorded or selected video is there for processVideo to send.
NoVideoAvailable == IF variant = "A" THEN videoBlob = NoVideo ELSE inputFiles = NoVideo

\* C1: whenever processVideo is invoked while no recorded or selected video is
\* available, it issues no POST to /process_video, raises an alert and leaves
\* every other part of the state as it was.
C1_ProcessRequiresVideo ==
    [][(lastAct' = "processVideo" /\ NoVideoAvailable)
         => /\ processInFlight' = processInFlight
            /\ nextReq' = nextReq
            /\ alertMsg' # "none"
            /\ UNCHANGED <<recVars, vidVars, ctlVars, btnVars, fpsVars, gridContainer,
                           rendered, docVars>>]_vars

\* The last step handled a /process_video response.
Settled == lastResp.kind = "settled"

\* The JSON body of the response carries an error field.
HasErrorField(resp) == resp.kind = "object" /\ resp.error # "absent"

\* Positions of the grid container holding an entry of the response to request id.
ShownFrom(id) == {k \in 1..Len(gridContainer) : gridContainer[k].req = id}

\* C2: after a /process_video response whose JSON body contains an error field
\* has been handled, no entry of that response is in the grid container and the
\* grid container shows no grid images.
C2_ErrorFieldShowsNoGrids ==
    (Settled /\ HasErrorField(lastResp.resp))
        => (ShownFrom(lastResp.id) = {} /\ gridContainer = <<>>)

\* The response arrived with a non-success HTTP status.
NonSuccessStatus(resp) == resp.kind # "reject" /\ ~resp.ok

FailureAlerts == {AlertA, AlertB, "data.error"}

\* C3: after a /process_video response with a non-success HTTP status has been
\* handled, whatever its body, none of its frames is in the grid container and
\* the step raised a failure message.
C3_ErrorStatusIsFailure ==
    (Settled /\ NonSuccessStatus(lastResp.resp))
        => (ShownFrom(lastResp.id) = {} /\ alertMsg \in FailureAlerts)

\* A success response as the revision expects it: success status, no error
\* field, and the entries where the revision reads them (A: the body is the
\* list; B: the frames field).
SuccessResponse(resp) ==
    /\ resp.ok
    /\ resp.error = "absent"
    /\ IF variant = "A" THEN resp.kind = "array"
       ELSE resp.kind = "object" /\ resp.hasFrames

\* C4: after any successful /process_video completion the grid container holds
\* exactly the entries of that response, in the response's order, and nothing
\* rendered for an earlier response, whatever was submitted and shown before.
C4_SubmitReplacesGrids ==
    (Settled /\ SuccessResponse(lastResp.resp)) => gridContainer = lastResp.resp.frames

\* C4 witness: a second submission completes successfully with entries after
\* the first one had been rendered.
C4_Witness ==
    /\ Settled
    /\ SuccessResponse(lastResp.resp)
    /\ lastResp.id = 2
    /\ rendered = {1, 2}
    /\ Len(lastResp.resp.frames) >= 1

\* C5: a POST to /generate_documentation is in flight only if an earlier
\* /process_video request completed and had its grids rendered.
C5_GenerateNeedsGrids == docInFlight # {} => rendered # {}

\* C6: validateFramesPerSecond marks the control valid for every integer in
\* [1, 30] and invalid for every value outside [1, 30], the empty and the
\* non-numeric value included.
C6_ValidateRange ==
    lastAct = "validateFramesPerSecond"
        => /\ FpsIntegerInRange(fpsValue) => fpsValidity = ""
           /\ ~FpsInRange(fpsValue) => fpsValidity # ""

\* C7: no POST to /process_video carries a frames_per_second value outside
\* [1, 30].
C7_SubmittedFpsInRange == \A q \in processInFlight : FpsInRange(q.fps)

\* C8: stopRecording invoked while no recorder exists or the recorder is
\* inactive leaves the chunk buffer, the current video, both recording controls
\* and every recorder as they were.
C8_StopIsNoOpWhenIdle ==
    [][(/\ lastAct' = "stopRecording"
        /\ (mediaRecorder = 0 \/ recorders[mediaRecorder].state = "inactive"))
         => UNCHANGED <<recordedChunks, videoBlob, inputFiles, startDisabled,
                        stopDisabled, recorders, mediaRecorder>>]_vars

\* C8 witness: stopRecording has just run on a recorder that had stopped on its
\* own, so the controls still show a recording.
C8_Witness ==
    /\ lastAct = "stopRecording"
    /\ mediaRecorder # 0
    /\ startDisabled
    /\ ~stopDisabled

\* C9: when the recorder's stop handler has produced the video blob the chunk
\* buffer is empty, and an empty buffer stays empty until a chunk is delivered.
C9_StopClearsChunks ==
    [][/\ lastAct' = "onstop" => recordedChunks' = <<>>
       /\ (recordedChunks = <<>> /\ lastAct' \notin {"ondataavailable", "onstop"})
             => recordedChunks' = <<>>]_vars

OutputResolved == docOutput.kind \in {"documentation", "error"}

\* C11: the output region shows the "Generating documentation..." placeholder
\* only while a /generate_documentation request is in flight, and, every request
\* settling in the end, a shown placeholder is always followed by rendered
\* documentation or an error message.
C11_PlaceholderResolves ==
    /\ [](docOutput.kind = "placeholder" => docInFlight # {})
    /\ (docOutput.kind = "placeholder") ~> OutputResolved

\* C11 witness: the last request in flight has failed and the output region shows
\* the error message in place of the placeholder.
C11_Witness ==
    /\ lastAct = "generateDocumentationSettled"
    /\ lastResp.resp.kind \in {"reject", "invalid"}
    /\ docInFlight = {}
    /\ docOutput.kind = "error"

\* The last step handled a /generate_documentation response.
DocSettled == lastResp.kind = "documentation"

\* The output holds the documentation or the results of the response to request id.
RenderedFrom(id) == docOutput.kind \in {"documentation", "results"} /\ docOutput.doc = id

\* C12: after a /generate_documentation response with a success status and an
\* error field in its JSON body has been handled, nothing of it is rendered as
\* documentation, results or summary, and an error message is displayed (in
\* the output region or as an alert).
C12_DocErrorFieldIsFailure ==
    (DocSettled /\ lastResp.resp.ok /\ HasErrorField(lastResp.resp))
        => /\ ~RenderedFrom(lastResp.id)
           /\ (docOutput.kind = "error" \/ alertMsg # "none")

\* C13: a click on the download button issues no request and produces a file
\* README.md whose content is the Markdown of the response rendered in the
\* output region.
C13_DownloadExportsShown ==
    [][lastAct' = "downloadMarkdown"
         => /\ UNCHANGED <<docInFlight, nextDoc, processInFlight, nextReq>>
            /\ docOutput.kind = "documentation"
            /\ lastDownload' = [name |-> "README.md", content |-> docOutput.doc]]_vars

\* C20: whenever the download button is visible the output region shows
\* documentation rendered from a successful response, not the placeholder and
\* not an error message.
C20_DownloadOnlyWithDocumentation == downloadVisible => docOutput.kind = "documentation"

\* C14: the blob built when the stop handler of a recorder runs is made of
\* exactly the non-empty chunks that recorder delivered, in delivery order.
C14_BlobHoldsSessionChunks ==
    [][lastAct' = "onstop"
         => \E r \in Recorders :
               /\ recorders'[r].queue # recorders[r].queue
               /\ videoPreview'.preview = RecordedBlob(recorders'[r].sent)]_vars

\* C15: every /process_video request that carries is_uploaded_video carries
\* "true" exactly when its video is a selected file and "false" exactly when
\* its video is a finished recording.
C15_SourceFlagMatchesPayload ==
    \A q \in processInFlight :
        q.flag # "absent" => /\ q.flag = "true" <=> q.video.src = "upload"
                             /\ q.flag = "false" <=> q.video.src = "recorded"

\* C16: while a /process_video request is in flight the process control is
\* disabled, while a /generate_documentation request is in flight the generate
\* control is disabled, and at most one request of each kind is in flight.
C16_ControlsDisabledInFlight ==
    /\ processInFlight # {} => processDisabled
    /\ docInFlight # {} => generateDisabled
    /\ Cardinality(processInFlight) <= 1
    /\ Cardinality(docInFlight) <= 1

\* C17: once every /process_video request issued has completed and had its
\* entries rendered, the grid container holds only entries of the request
\* issued last.
C17_GridOfLatestSubmit ==
    (nextReq > 0 /\ processInFlight = {} /\ rendered = 1..nextReq)
        => \A k \in 1..Len(gridContainer) : gridContainer[k].req = nextReq

\* Some recorder is recording.
RecordingActive == \E r \in Recorders : Recording(r)

\* C18: the stop control is enabled and the start control disabled exactly
\* when a recording is active.
C18_ControlsMirrorRecorder ==
    /\ RecordingActive => (startDisabled /\ ~stopDisabled)
    /\ ~RecordingActive => (~startDisabled /\ stopDisabled)

\* C19: at most one recorder is recording, and a recorder that is recording is
\* the one held by the global stopRecording acts on.
C19_OneActiveRecorder ==
    /\ Cardinality({r \in Recorders : Recording(r)}) <= 1
    /\ \A r \in Recorders : Recording(r) => mediaRecorder = r

\* C21: a step in which processVideo handles a response and raises a failure
\* alert leaves the grid container and the generate control as they were.
C21_FailedSubmitChangesNothing ==
    [][(lastAct' = "processVideoSettled" /\ alertMsg' \in FailureAlerts)
         => /\ gridContainer' = gridContainer
            /\ generateDisabled' = generateDisabled]_vars

\* C22: after a /process_video response has been handled, either its entries
\* were rendered and no failure alert was raised, or a failure alert was raised
\* and its entries were not rendered: exactly one of the two.
C22_ExactlyOneOutcome ==
    Settled => ((lastResp.id \in rendered) # (alertMsg \in FailureAlerts))

====
